---------------------------- MODULE Spec2Model ----------------------------
(***************************************************************************)
(* Frame extraction and aggregation pipeline of video-processor:           *)
(* frame readers (frame_processing.py), analyzer workers                   *)
(* (frame_processing.py), the saver (frame_saver.py), the text utilities   *)
(* (ocr.py) and the orchestrator (video_processor.py).                     *)
(*                                                                         *)
(* Texts are sequences of one-character strings.  Probabilities are        *)
(* integer percents.  A frame image is identified by its frame number.     *)
(***************************************************************************)
EXTENDS Integers, Sequences, FiniteSets, TLC

(***************************************************************************)
(* Bounds of the model.                                                    *)
(***************************************************************************)
MaxWorkers == 2
MaxBatch == 2
MaxFrames == 2
MaxResults == 3
ImgH == 40

Min2(a, b) == IF a <= b THEN a ELSE b
Max2(a, b) == IF a >= b THEN a ELSE b

(***************************************************************************)
(* Characters and Python string operations used by ocr.py.                 *)
(***************************************************************************)
LowerLetters == {"a", "b", "c"}
UpperLetters == {"A", "B"}
CJK == {"Zh"}
IsSpace(c) == c = " "
\* \w of a Python 3 str pattern: letters, digits, underscore, ideographs
IsWord(c) == c \in LowerLetters \cup UpperLetters \cup CJK \cup {"_"}
Lower(c) == IF c = "A" THEN "a" ELSE IF c = "B" THEN "b" ELSE c

RECURSIVE LStrip(_)
LStrip(s) == IF s # <<>> /\ IsSpace(Head(s)) THEN LStrip(Tail(s)) ELSE s

RECURSIVE RStrip(_)
RStrip(s) ==
    IF s # <<>> /\ IsSpace(s[Len(s)]) THEN RStrip(SubSeq(s, 1, Len(s) - 1)) ELSE s

\* str.strip()
Strip(s) == RStrip(LStrip(s))

\* str.lower()
LowerStr(s) == [i \in 1..Len(s) |-> Lower(s[i])]

\* ' '.join(parts)
RECURSIVE JoinSp(_)
JoinSp(parts) ==
    IF parts = <<>> THEN <<>>
    ELSE IF Len(parts) = 1 THEN parts[1]
    ELSE parts[1] \o <<" ">> \o JoinSp(Tail(parts))

RECURSIVE TakeWord(_)
TakeWord(t) ==
    IF t = <<>> \/ IsSpace(Head(t)) THEN <<>> ELSE <<Head(t)>> \o TakeWord(Tail(t))

\* str.split(): the maximal runs of non-whitespace
RECURSIVE Split(_)
Split(s) ==
    LET t == LStrip(s) IN
    IF t = <<>> THEN <<>>
    ELSE LET w == TakeWord(t) IN <<w>> \o Split(SubSeq(t, Len(w) + 1, Len(t)))

\* re.sub(r'[^\w\s一-鿿]', '', text)
RemovePunct(s) == SelectSeq(s, LAMBDA c : IsWord(c) \/ IsSpace(c))


(***************************************************************************)
(* ocr.py                                                                  *)
(***************************************************************************)
normalize_text(text) ==
    IF text = <<>> \/ Len(Strip(text)) < 2 THEN <<>>
    ELSE JoinSp(Split(LowerStr(Strip(RemovePunct(text)))))

\* longest common subsequence; Levenshtein.ratio(a, b) = 2*LCS/(|a|+|b|)
RECURSIVE LCS(_, _)
LCS(a, b) ==
    IF a = <<>> \/ b = <<>> THEN 0
    ELSE IF Head(a) = Head(b) THEN 1 + LCS(Tail(a), Tail(b))
    ELSE Max2(LCS(Tail(a), b), LCS(a, Tail(b)))

\* structural similarity of two frames: the score of the external ssim(), or 0
\* when nothing was saved before; no caller in frame_saver.py or video_processor.py
calculate_ssim(score, has_last_saved_frame) == IF has_last_saved_frame THEN score ELSE 0

\* Levenshtein.ratio(a, b) < threshold, the threshold a percent
RatioBelow(a, b, thresholdPct) == 200 * LCS(a, b) < thresholdPct * (Len(a) + Len(b))

TextThresholdPct == 85

is_text_significantly_different(a, b) ==
    IF a = <<>> /\ b = <<>> THEN FALSE
    ELSE IF a = <<>> \/ b = <<>> THEN TRUE
    ELSE RatioBelow(a, b, TextThresholdPct)

has_meaningful_text(text) ==
    IF text = <<>> THEN FALSE ELSE Len(normalize_text(text)) >= 2

\* y_min / y_max over the four corner points of a bounding box
BoxYMin(bbox) == Min2(Min2(bbox[1][2], bbox[2][2]), Min2(bbox[3][2], bbox[4][2]))
BoxYMax(bbox) == Max2(Max2(bbox[1][2], bbox[2][2]), Max2(bbox[3][2], bbox[4][2]))

\* a Python slice bound on an array of length h
SliceIndex(i, h) == IF i < 0 THEN Max2(0, i + h) ELSE Min2(i, h)

\* faulty variant of FallbackRegion: the bottom third, two thirds of the height down
FallbackRegion_BottomThird(h) == <<(h * 2) \div 3, h>>

\* (int(h * 0.66), h)
FallbackRegion(h) == <<(h * 66) \div 100, h>>

\* bins[r] after every bins[int(max(0, y_min)):int(min(h, y_max))] += 1
Coverage(y_coords, h, r) ==
    Cardinality({i \in 1..Len(y_coords) :
        /\ SliceIndex(Max2(0, y_coords[i][1]), h) <= r
        /\ r < SliceIndex(Min2(h, y_coords[i][2]), h)})

SetMax(S) == CHOOSE x \in S : \A y \in S : y <= x
SetMin(S) == CHOOSE x \in S : \A y \in S : x <= y

RegionPad == 10

calculate_region_from_coords(y_coords, h) ==
    IF y_coords = <<>> THEN FallbackRegion(h)
    ELSE
      LET bins == [r \in 0..(h - 1) |-> Coverage(y_coords, h, r)]
          max_freq == SetMax({bins[r] : r \in 0..(h - 1)})
          active == {r \in 0..(h - 1) : 2 * bins[r] >= max_freq}
      IN IF max_freq = 0 THEN FallbackRegion(h)
         ELSE IF active = {} THEN FallbackRegion(h)
         ELSE LET y_start == Max2(0, SetMin(active) - RegionPad)
                  y_end == Min2(h, SetMax(active) + RegionPad)
              IN IF 100 * (y_end - y_start) < 5 * h \/ 10 * (y_end - y_start) > 8 * h
                 THEN FallbackRegion(h)
                 ELSE <<y_start, y_end>>

\* whether one OCR block is kept by filter_ocr_results_by_region
BlockInRegion(o, region) ==
    LET y_min == BoxYMin(o.bbox)
        y_max == BoxYMax(o.bbox)
        overlap_y_start == Max2(region[1], y_min)
        overlap_y_end == Min2(region[2], y_max)
    IN /\ o.prob > 30
       /\ overlap_y_end > overlap_y_start
       /\ y_max - y_min > 0
       /\ 2 * (overlap_y_end - overlap_y_start) > y_max - y_min

filter_ocr_results_by_region(results, region) ==
    LET kept == SelectSeq(results, LAMBDA o : BlockInRegion(o, region))
    IN Strip(JoinSp([i \in 1..Len(kept) |-> kept[i].text]))

(***************************************************************************)
(* scene_detection.py                                                      *)
(***************************************************************************)
\* stable insertion of x into an ascending sequence of integers
RECURSIVE InsertSorted(_, _)
InsertSorted(x, s) ==
    IF s = <<>> THEN <<x>>
    ELSE IF x < Head(s) THEN <<x>> \o s
    ELSE <<Head(s)>> \o InsertSorted(x, Tail(s))

\* sorted(keyframes)
RECURSIVE Sorted(_)
Sorted(s) ==
    IF s = <<>> THEN <<>>
    ELSE InsertSorted(s[Len(s)], Sorted(SubSeq(s, 1, Len(s) - 1)))

\* faulty variant of SceneKeyframes: the interval is rounded up and the "< end_frame"
\* guard is missing
SceneKeyframes_RoundedUp(scene, k) ==
    LET start_frame == scene[1]
        scene_length == scene[2] - scene[1]
    IN IF scene_length <= k
       THEN [i \in 1..Max2(0, scene_length) |-> start_frame + i - 1]
       ELSE [i \in 1..k |-> start_frame + (i - 1) * ((scene_length + k - 1) \div k)]

\* faulty variant of SceneKeyframes: a short scene yields range(start_frame,
\* end_frame + 1)
SceneKeyframes_InclusiveEnd(scene, k) ==
    LET start_frame == scene[1]
        scene_length == scene[2] - scene[1]
    IN IF scene_length <= k
       THEN [i \in 1..Max2(0, scene_length + 1) |-> start_frame + i - 1]
       ELSE SelectSeq([i \in 1..k |-> start_frame + (i - 1) * (scene_length \div k)],
                      LAMBDA f : f < scene[2])

\* the keyframes of one scene (start_frame, end_frame)
SceneKeyframes(scene, keyframes_per_scene) ==
    LET start_frame == scene[1]
        end_frame == scene[2]
        scene_length == end_frame - start_frame
    IN IF scene_length <= keyframes_per_scene
       THEN [i \in 1..Max2(0, scene_length) |-> start_frame + i - 1]
       ELSE LET interval == scene_length \div keyframes_per_scene
            IN SelectSeq([i \in 1..keyframes_per_scene |-> start_frame + (i - 1) * interval],
                         LAMBDA f : f < end_frame)

RECURSIVE AllSceneKeyframes(_, _)
AllSceneKeyframes(scenes, k) ==
    IF scenes = <<>> THEN <<>>
    ELSE SceneKeyframes(Head(scenes), k) \o AllSceneKeyframes(Tail(scenes), k)

calculate_scene_keyframes(scenes, keyframes_per_scene) ==
    Sorted(AllSceneKeyframes(scenes, keyframes_per_scene))

(***************************************************************************)
(* State                                                                   *)
(***************************************************************************)
VARIABLES
    launch,            \* who started the saver: "direct" or "process_video"
    num_workers,       \* orchestrator's / reader's num_workers
    batch_size,
    only_with_text,
    fps,
    strategy,          \* "interval", "scene", "precalc"
    frame_interval,
    total_frames,      \* frames the decoder holds
    frame_height,      \* rows of every frame of the video, frame.shape[0]
    scenes,            \* the (start_frame, end_frame) list of the scene segmenter
    keyframes_per_scene,
    keyframes,         \* the scene-aware readers' frame numbers
    r_pc,              \* reader: "calc", "read", "stop", "done"
    frame_count,       \* frame_reader's frame_count
    kf_idx,            \* scene-aware readers' position in keyframes
    stops_put,         \* sentinels the reader has put
    put_log,           \* every item the reader has put on the work channel, in order
    failed_reads,      \* frame numbers whose read failed
    cap_calls,         \* the reader's calls of cap.read() / cap.grab(), in order
    frame_queue,       \* the work channel
    maxsize,           \* its capacity
    ocr_outcomes,      \* payloads the recognition collaborator may return
    w_pc,              \* worker: "get", "process", "flush", "put_stop", "done", "crashed"
    batch,             \* worker's pending batch
    w_i,               \* worker's position in the batch loop
    w_results,         \* results a worker has emitted
    w_stops,           \* sentinels a worker has emitted
    w_pulled,          \* frames a worker has pulled
    w_stops_pulled,    \* sentinels a worker has pulled
    w_log,             \* per worker: frames pulled, recognition calls, results emitted
    result_queue,      \* the results channel
    s_pc,              \* saver: "start", "collect", "save", "metadata", "done", "crashed"
    s_num_workers,     \* the saver's num_workers parameter
    s_only_with_text,  \* the saver's only_with_text parameter
    finished_workers,
    all_frames,
    y_coords,
    img_h,
    detected_region,
    regions_computed,  \* times calculate_region_from_coords was called
    arrival,           \* frame numbers in the order the saver collected them
    s_idx,             \* position of the save pass in all_frames
    last_text_data,
    saved_count,
    frame_infos,
    files,             \* image files on disk
    metadata,          \* metadata.json documents written, in order
    call_in,           \* a direct call of a text utility: the function and its arguments
    call_out,          \* what that call returned
    video_paths,       \* process_multiple_videos: the video files of its video_paths
    v_idx,             \* position of its for loop in video_paths
    results,           \* its results list
    b_pc,              \* "none", "loop", "running" (inside process_video), "returned"
    started,           \* positions of the videos process_video started processes for
    sql_file           \* the SQL file generate_d1_sql wrote for the output directory

videoVars == <<launch, num_workers, batch_size, only_with_text, fps, strategy, frame_interval,
               total_frames, frame_height, scenes, keyframes_per_scene, maxsize, ocr_outcomes>>
batchVars == <<video_paths, v_idx, results, b_pc, started>>
inputVars == <<videoVars, call_in, call_out, batchVars, sql_file>>
cfgVars == <<inputVars, keyframes>>
readerVars == <<r_pc, frame_count, kf_idx, stops_put, put_log, failed_reads, cap_calls>>
workerVars == <<w_pc, batch, w_i, w_results, w_stops, w_pulled, w_stops_pulled, w_log>>
saverVars == <<s_pc, s_num_workers, s_only_with_text, finished_workers, all_frames, y_coords, img_h,
               detected_region, regions_computed, arrival, s_idx, last_text_data, saved_count,
               frame_infos, files, metadata>>
vars == <<cfgVars, readerVars, workerVars, saverVars, frame_queue, result_queue>>

\* no call of a text utility has been made
NoValue == [fn |-> "none"]
NoCall == call_in = NoValue /\ call_out = NoValue

\* generate_d1_sql has written no file
NoFile == [written |-> FALSE]
NoExport == sql_file = NoFile

\* process_multiple_videos has not been called
NoBatch ==
    /\ video_paths = <<>>
    /\ v_idx = 1
    /\ results = <<>>
    /\ b_pc = "none"
    /\ started = <<>>

Workers == 1..num_workers

StopItem == [stop |-> TRUE]
IsStop(item) == "stop" \in DOMAIN item
FrameItem(n) == [frame_number |-> n]

(***************************************************************************)
(* frame_processing.py: the readers                                        *)
(***************************************************************************)
MaxDecodeFail == 1

\* faulty variant of CanPut: the work channel is created without maxsize
CanPut_Unbounded == Len(frame_queue) >= 0

\* frame_queue.put(item): blocks while the channel is full
CanPut == Len(frame_queue) < maxsize

\* cap.read() may fail on a frame the decoder holds
MayFail(n) == n < total_frames /\ Cardinality(failed_reads) < MaxDecodeFail

\* one call on the decoder: cap.read() or cap.grab() at frame n, and what it returned
CapCall(op, n, ret) == [op |-> op, n |-> n, ret |-> ret]

\* faulty variant of Sampled: the first sampled index is frame_interval - 1
Sampled_FromOne(n) == (n + 1) % frame_interval = 0

\* "if frame_count % frame_interval == 0"
Sampled(n) == n % frame_interval = 0

\* frame_reader, a sampled index: cap.read() succeeds, the frame is put
ReaderReadPut ==
    /\ r_pc = "read" /\ strategy = "interval"
    /\ Sampled(frame_count)
    /\ frame_count < total_frames
    /\ CanPut
    /\ frame_queue' = Append(frame_queue, FrameItem(frame_count))
    /\ put_log' = Append(put_log, FrameItem(frame_count))
    /\ frame_count' = frame_count + 1
    /\ UNCHANGED <<r_pc, kf_idx, stops_put, failed_reads>>
    /\ UNCHANGED <<cfgVars, workerVars, saverVars, result_queue>>
    /\ cap_calls' = Append(cap_calls, CapCall("read", frame_count, TRUE))

\* frame_reader, a sampled index past the last frame: ret = False, the loop breaks
ReaderReadEOF ==
    /\ r_pc = "read" /\ strategy = "interval"
    /\ Sampled(frame_count)
    /\ frame_count >= total_frames
    /\ r_pc' = "stop"
    /\ UNCHANGED <<frame_count, kf_idx, stops_put, put_log, failed_reads>>
    /\ UNCHANGED <<cfgVars, workerVars, saverVars, frame_queue, result_queue>>
    /\ cap_calls' = Append(cap_calls, CapCall("read", frame_count, FALSE))

\* frame_reader, a sampled index whose decode fails: ret = False, the loop breaks
ReaderReadFail ==
    /\ r_pc = "read" /\ strategy = "interval"
    /\ Sampled(frame_count)
    /\ MayFail(frame_count)
    /\ failed_reads' = failed_reads \cup {frame_count}
    /\ r_pc' = "stop"
    /\ UNCHANGED <<frame_count, kf_idx, stops_put, put_log>>
    /\ UNCHANGED <<cfgVars, workerVars, saverVars, frame_queue, result_queue>>
    /\ cap_calls' = Append(cap_calls, CapCall("read", frame_count, FALSE))

\* frame_reader, a skipped index: cap.grab()
ReaderGrab ==
    /\ r_pc = "read" /\ strategy = "interval"
    /\ ~Sampled(frame_count)
    /\ IF frame_count < total_frames
       THEN frame_count' = frame_count + 1 /\ UNCHANGED r_pc
       ELSE r_pc' = "stop" /\ UNCHANGED frame_count
    /\ UNCHANGED <<kf_idx, stops_put, put_log, failed_reads>>
    /\ UNCHANGED <<cfgVars, workerVars, saverVars, frame_queue, result_queue>>
    /\ cap_calls' = Append(cap_calls, CapCall("grab", frame_count, frame_count < total_frames))

\* scene_aware_frame_reader: keyframes = calculate_scene_keyframes(scenes,
\* keyframes_per_scene, fps), before the loop
SceneCalcKeyframes ==
    /\ r_pc = "calc" /\ strategy = "scene"
    /\ keyframes' = calculate_scene_keyframes(scenes, keyframes_per_scene)
    /\ r_pc' = "read"
    /\ UNCHANGED <<frame_count, kf_idx, stops_put, put_log, failed_reads>>
    /\ UNCHANGED <<inputVars, workerVars, saverVars, frame_queue, result_queue>>
    /\ UNCHANGED cap_calls

\* scene_aware_frame_reader(_precalculated): seek + read succeeds, the frame is put
SceneReadPut ==
    /\ r_pc = "read" /\ strategy \in {"scene", "precalc"}
    /\ kf_idx <= Len(keyframes)
    /\ keyframes[kf_idx] < total_frames
    /\ CanPut
    /\ frame_queue' = Append(frame_queue, FrameItem(keyframes[kf_idx]))
    /\ put_log' = Append(put_log, FrameItem(keyframes[kf_idx]))
    /\ kf_idx' = kf_idx + 1
    /\ UNCHANGED <<r_pc, frame_count, stops_put, failed_reads>>
    /\ UNCHANGED <<cfgVars, workerVars, saverVars, result_queue>>
    /\ cap_calls' = Append(cap_calls, CapCall("read", keyframes[kf_idx], TRUE))

\* scene_aware_frame_reader(_precalculated): the read fails, the index is skipped
SceneReadSkip ==
    /\ r_pc = "read" /\ strategy \in {"scene", "precalc"}
    /\ kf_idx <= Len(keyframes)
    /\ keyframes[kf_idx] >= total_frames \/ MayFail(keyframes[kf_idx])
    /\ failed_reads' = failed_reads \cup {keyframes[kf_idx]}
    /\ kf_idx' = kf_idx + 1
    /\ UNCHANGED <<r_pc, frame_count, stops_put, put_log>>
    /\ UNCHANGED <<cfgVars, workerVars, saverVars, frame_queue, result_queue>>
    /\ cap_calls' = Append(cap_calls, CapCall("read", keyframes[kf_idx], FALSE))

\* scene_aware_frame_reader(_precalculated): the for loop over keyframes ends
SceneLoopEnd ==
    /\ r_pc = "read" /\ strategy \in {"scene", "precalc"}
    /\ kf_idx > Len(keyframes)
    /\ r_pc' = "stop"
    /\ UNCHANGED <<frame_count, kf_idx, stops_put, put_log, failed_reads>>
    /\ UNCHANGED <<cfgVars, workerVars, saverVars, frame_queue, result_queue>>
    /\ UNCHANGED cap_calls

\* faulty variant of ReaderStopCount: one sentinel too few, range(num_workers - 1)
ReaderStopCount_OffByOne == num_workers - 1

\* for _ in range(num_workers): frame_queue.put("__STOP__"); then cap.release()
ReaderStopCount == num_workers

ReaderPutStop ==
    /\ r_pc = "stop"
    /\ stops_put < ReaderStopCount
    /\ CanPut
    /\ frame_queue' = Append(frame_queue, StopItem)
    /\ put_log' = Append(put_log, StopItem)
    /\ stops_put' = stops_put + 1
    /\ r_pc' = IF stops_put + 1 >= ReaderStopCount THEN "done" ELSE "stop"
    /\ UNCHANGED <<frame_count, kf_idx, failed_reads>>
    /\ UNCHANGED <<cfgVars, workerVars, saverVars, result_queue>>
    /\ UNCHANGED cap_calls

(***************************************************************************)
(* frame_processing.py: analyzer_worker                                    *)
(***************************************************************************)
\* a worker's history before its first get
EmptyLog == [pulled |-> <<>>, calls |-> <<>>, emitted |-> <<>>]

\* faulty variant of OnStop: the sentinel is forwarded at once, the partial batch dropped
OnStop_NoFlush(b) == "put_stop"

\* on "__STOP__": the frames left in the batch are flushed before the sentinel is put
OnStop(b) == IF b = <<>> THEN "put_stop" ELSE "flush"

\* item = frame_queue.get(); a sentinel starts the flush, a frame joins the batch
WorkerGet(w) ==
    /\ w_pc[w] = "get"
    /\ frame_queue # <<>>
    /\ frame_queue' = Tail(frame_queue)
    /\ LET item == Head(frame_queue) IN
       IF IsStop(item)
       THEN /\ w_pc' = [w_pc EXCEPT ![w] = OnStop(batch[w])]
            /\ w_stops_pulled' = [w_stops_pulled EXCEPT ![w] = @ + 1]
            /\ UNCHANGED <<batch, w_pulled, w_log>>
       ELSE /\ batch' = [batch EXCEPT ![w] = Append(@, item.frame_number)]
            /\ w_log' = [w_log EXCEPT ![w].pulled = Append(@, item.frame_number)]
            /\ w_pulled' = [w_pulled EXCEPT ![w] = @ + 1]
            /\ UNCHANGED w_stops_pulled
            /\ w_pc' = [w_pc EXCEPT ![w] =
                           IF Len(batch[w]) + 1 >= batch_size THEN "process" ELSE "get"]
    /\ w_i' = [w_i EXCEPT ![w] = 1]
    /\ UNCHANGED <<w_results, w_stops>>
    /\ UNCHANGED <<cfgVars, readerVars, saverVars, result_queue>>

\* where the worker goes when its loop over the batch ends
AfterBatch(pc) == IF pc = "flush" THEN "put_stop" ELSE "get"

\* one iteration of "for frame_number, frame in batch": recognition returns, the
\* result is put; batch = [] when the loop ends
WorkerRecognize(w) ==
    /\ w_pc[w] \in {"process", "flush"}
    /\ \E data \in ocr_outcomes :
          result_queue' = Append(result_queue,
                                 [frame_number |-> batch[w][w_i[w]], data |-> data])
    /\ w_results' = [w_results EXCEPT ![w] = @ + 1]
    /\ w_log' = [w_log EXCEPT ![w].calls = Append(@, batch[w][w_i[w]]),
                              ![w].emitted = Append(@, batch[w][w_i[w]])]
    /\ IF w_i[w] >= Len(batch[w])
       THEN /\ batch' = [batch EXCEPT ![w] = <<>>]
            /\ w_i' = [w_i EXCEPT ![w] = 1]
            /\ w_pc' = [w_pc EXCEPT ![w] = AfterBatch(@)]
       ELSE /\ w_i' = [w_i EXCEPT ![w] = @ + 1]
            /\ UNCHANGED <<batch, w_pc>>
    /\ UNCHANGED <<w_stops, w_pulled, w_stops_pulled>>
    /\ UNCHANGED <<cfgVars, readerVars, saverVars, frame_queue>>

\* what an exception of extract_text_from_frame does to the worker: nothing
\* catches it in analyzer_worker, the process ends
OnRecognitionError(pc) == "crashed"

WorkerRecognizeRaise(w) ==
    /\ w_pc[w] \in {"process", "flush"}
    /\ w_pc' = [w_pc EXCEPT ![w] = OnRecognitionError(@)]
    /\ w_log' = [w_log EXCEPT ![w].calls = Append(@, batch[w][w_i[w]])]
    /\ UNCHANGED <<batch, w_i, w_results, w_stops, w_pulled, w_stops_pulled>>
    /\ UNCHANGED <<cfgVars, readerVars, saverVars, frame_queue, result_queue>>

\* result_queue.put("__STOP__"); break
WorkerPutStop(w) ==
    /\ w_pc[w] = "put_stop"
    /\ result_queue' = Append(result_queue, StopItem)
    /\ w_stops' = [w_stops EXCEPT ![w] = @ + 1]
    /\ w_pc' = [w_pc EXCEPT ![w] = "done"]
    /\ UNCHANGED <<batch, w_i, w_results, w_pulled, w_stops_pulled, w_log>>
    /\ UNCHANGED <<cfgVars, readerVars, saverVars, frame_queue>>

(***************************************************************************)
(* frame_saver.py                                                          *)
(***************************************************************************)
\* def saver(result_queue, total_frames, lang, video_output_dir, fps, video_name,
\*           num_workers, only_with_text=False)
SaverParams == <<"result_queue", "total_frames", "lang", "video_output_dir", "fps",
                 "video_name", "num_workers", "only_with_text">>
SaverRequired == 7

\* the positional arguments process_video hands to the saver process
ProcessVideoSaverArgs ==
    <<"result_queue", "expected_frames", "dedup_mode", "text_region", "lang",
      "ssim_threshold", "output_dir", "fps", "video_name", "num_workers",
      "only_with_text">>

\* a caller that follows the saver's signature
DirectSaverArgs == SaverParams

SaverArgs == IF launch = "process_video" THEN ProcessVideoSaverArgs ELSE DirectSaverArgs

\* the value of an argument expression in the caller
ArgValue(name) ==
    CASE name = "num_workers" -> num_workers
      [] name = "only_with_text" -> only_with_text
      [] name = "fps" -> fps
      [] OTHER -> name

\* Python's binding of positional arguments to the saver's parameters
BindSaver(args) ==
    IF Len(args) > Len(SaverParams) \/ Len(args) < SaverRequired
    THEN [error |-> "TypeError"]
    ELSE [p \in {SaverParams[i] : i \in 1..Len(SaverParams)} |->
            LET i == CHOOSE j \in 1..Len(SaverParams) : SaverParams[j] = p
            IN IF i <= Len(args) THEN ArgValue(args[i]) ELSE FALSE]

\* the saver process starts: target(*args)
SaverStart ==
    /\ s_pc = "start"
    /\ LET b == BindSaver(SaverArgs) IN
       IF "error" \in DOMAIN b
       THEN /\ s_pc' = "crashed"
            /\ UNCHANGED <<s_num_workers, s_only_with_text>>
       ELSE /\ s_pc' = "collect"
            /\ s_num_workers' = b["num_workers"]
            /\ s_only_with_text' = b["only_with_text"]
    /\ UNCHANGED <<finished_workers, all_frames, y_coords, img_h, detected_region,
                   regions_computed, arrival, s_idx, last_text_data, saved_count, frame_infos,
                   files, metadata>>
    /\ UNCHANGED <<cfgVars, readerVars, workerVars, frame_queue, result_queue>>

\* the (y_min, y_max) of the blocks of one frame with prob > 0.5
FrameYCoords(ocr_results) ==
    LET good == SelectSeq(ocr_results, LAMBDA o : o.prob > 50)
    IN [i \in 1..Len(good) |-> <<BoxYMin(good[i].bbox), BoxYMax(good[i].bbox)>>]

\* faulty variant of Collecting: the loop is left on the first sentinel
Collecting_FirstSentinel == finished_workers < Min2(1, s_num_workers)

\* the collection loop's condition
Collecting == finished_workers < s_num_workers

\* one iteration of the collection loop
SaverGet ==
    /\ s_pc = "collect"
    /\ Collecting
    /\ result_queue # <<>>
    /\ result_queue' = Tail(result_queue)
    /\ LET item == Head(result_queue) IN
       IF IsStop(item)
       THEN /\ finished_workers' = finished_workers + 1
            /\ UNCHANGED <<all_frames, y_coords, img_h>>
       ELSE /\ img_h' = IF img_h = 0 THEN frame_height ELSE img_h
            /\ y_coords' = y_coords \o FrameYCoords(item.data.ocr_results)
            /\ all_frames' = Append(all_frames, item)
            /\ UNCHANGED finished_workers
    /\ UNCHANGED <<s_pc, s_num_workers, s_only_with_text, detected_region,
                   regions_computed, arrival, s_idx, last_text_data, saved_count, frame_infos,
                   files, metadata>>
    /\ UNCHANGED <<cfgVars, readerVars, workerVars, frame_queue>>

\* all_frames.sort(key=lambda x: x[0]): stable, ascending frame number
RECURSIVE InsertByFrame(_, _)
InsertByFrame(x, s) ==
    IF s = <<>> THEN <<x>>
    ELSE IF x.frame_number < Head(s).frame_number THEN <<x>> \o s
    ELSE <<Head(s)>> \o InsertByFrame(x, Tail(s))

\* faulty variant of SortByFrame: the collected frames keep their arrival order
SortByFrame_Unsorted(s) == s

RECURSIVE SortByFrame(_)
SortByFrame(s) ==
    IF s = <<>> THEN <<>>
    ELSE InsertByFrame(s[Len(s)], SortByFrame(SubSeq(s, 1, Len(s) - 1)))

\* the collection loop is left: region detection, then the sort
SaverDetectRegion ==
    /\ s_pc = "collect"
    /\ ~Collecting
    /\ detected_region' = calculate_region_from_coords(y_coords, img_h)
    /\ regions_computed' = regions_computed + 1
    /\ arrival' = [i \in 1..Len(all_frames) |-> all_frames[i].frame_number]
    /\ all_frames' = SortByFrame(all_frames)
    /\ last_text_data' = [ocr_text |-> <<>>, stt_text |-> <<>>]
    /\ saved_count' = 0
    /\ frame_infos' = <<>>
    /\ s_idx' = 1
    /\ s_pc' = "save"
    /\ UNCHANGED <<s_num_workers, s_only_with_text, finished_workers, y_coords, img_h,
                   files, metadata>>
    /\ UNCHANGED <<cfgVars, readerVars, workerVars, frame_queue, result_queue>>

\* faulty variant of should_save_frame: the only_with_text check is missing
should_save_frame_NoPolicy(ocr_text, stt_text, last, owt) ==
    LET primary_text == IF Strip(ocr_text) # <<>> THEN ocr_text ELSE stt_text
        last_primary_text ==
            IF Strip(last.ocr_text) # <<>> THEN last.ocr_text ELSE last.stt_text
    IN \/ normalize_text(primary_text) = <<>>
       \/ is_text_significantly_different(normalize_text(primary_text),
                                          normalize_text(last_primary_text))
       \/ last.stt_text = <<>>

should_save_frame(ocr_text, stt_text, last, owt) ==
    IF owt /\ ~has_meaningful_text(ocr_text) /\ stt_text = <<>> THEN FALSE
    ELSE LET primary_text == IF Strip(ocr_text) # <<>> THEN ocr_text ELSE stt_text
             last_primary_text ==
                 IF Strip(last.ocr_text) # <<>> THEN last.ocr_text ELSE last.stt_text
             norm_text == normalize_text(primary_text)
             norm_last_text == normalize_text(last_primary_text)
         IN \/ norm_text = <<>>
            \/ is_text_significantly_different(norm_text, norm_last_text)
            \/ last.stt_text = <<>>

\* f"{saved_count:06d}"
Digits6(n) == [i \in 1..6 |-> (n \div (10 ^ (6 - i))) % 10]
FrameFilename(n) == <<"frame_">> \o Digits6(n) \o <<".jpg">>

\* what cv2.imwrite may do: write the file, return False without writing, or raise
ImwriteOutcomes == {"written", "not_written", "raise"}

\* save_frame_with_metadata: (frame_info, success)
save_frame_with_metadata(frame_number, stt_text, ocr_text, count, outcome) ==
    IF outcome = "raise" \/ fps = 0
    THEN [frame_info |-> <<>>, success |-> FALSE]
    ELSE [frame_info |-> <<[frame_number |-> frame_number,
                            timestamp |-> <<frame_number, fps>>,
                            filename |-> FrameFilename(count),
                            ocr_text |-> ocr_text,
                            stt_text |-> stt_text,
                            saved_count |-> count]>>,
          success |-> TRUE]

\* the region-filtered OCR text of the frame the save pass is at
CurOcrText == filter_ocr_results_by_region(all_frames[s_idx].data.ocr_results,
                                           detected_region)
CurSttText == all_frames[s_idx].data.stt_text

\* faulty variant of WantSave: the "if ocr_text.strip()" gate is missing
WantSave_NoTextGate ==
    should_save_frame(CurOcrText, CurSttText, last_text_data, s_only_with_text)

\* "if ocr_text.strip(): if should_save_frame(...)"
WantSave ==
    /\ Strip(CurOcrText) # <<>>
    /\ should_save_frame(CurOcrText, CurSttText, last_text_data, s_only_with_text)

\* one iteration of the save pass on a frame that is not saved
SaverSkipFrame ==
    /\ s_pc = "save"
    /\ s_idx <= Len(all_frames)
    /\ ~WantSave
    /\ s_idx' = s_idx + 1
    /\ UNCHANGED <<s_pc, s_num_workers, s_only_with_text, finished_workers, all_frames,
                   y_coords, img_h, detected_region, regions_computed, arrival, last_text_data,
                   saved_count, frame_infos, files, metadata>>
    /\ UNCHANGED <<cfgVars, readerVars, workerVars, frame_queue, result_queue>>

\* faulty variant of SavedCountAfter: every call of save_frame_with_metadata counts
SavedCountAfter_EveryCall(count, r) == count + 1

\* "if success and frame_info: ... saved_count += 1"
SavedCountAfter(count, r) == IF r.success /\ r.frame_info # <<>> THEN count + 1 ELSE count

\* one iteration of the save pass on a frame that save_frame_with_metadata is called for
SaverSaveFrame ==
    /\ s_pc = "save"
    /\ s_idx <= Len(all_frames)
    /\ WantSave
    /\ \E outcome \in ImwriteOutcomes :
         LET fn == all_frames[s_idx].frame_number
             r == save_frame_with_metadata(fn, CurSttText, CurOcrText, saved_count, outcome)
         IN /\ files' = IF outcome = "written"
                        THEN [f \in DOMAIN files \cup {FrameFilename(saved_count)} |->
                                 IF f = FrameFilename(saved_count) THEN fn ELSE files[f]]
                        ELSE files
            /\ IF r.success /\ r.frame_info # <<>>
               THEN /\ frame_infos' = Append(frame_infos, r.frame_info[1])
                    /\ last_text_data' = [ocr_text |-> CurOcrText, stt_text |-> CurSttText]
               ELSE UNCHANGED <<frame_infos, last_text_data>>
            /\ saved_count' = SavedCountAfter(saved_count, r)
    /\ s_idx' = s_idx + 1
    /\ UNCHANGED <<s_pc, s_num_workers, s_only_with_text, finished_workers, all_frames,
                   y_coords, img_h, detected_region, regions_computed, arrival, metadata>>
    /\ UNCHANGED <<cfgVars, readerVars, workerVars, frame_queue, result_queue>>

\* faulty variant of PassOver: the document is written inside the loop
PassOver_InsideLoop == s_idx > 1

\* "for frame_number, frame, data in all_frames" has been over every collected frame
PassOver == s_idx > Len(all_frames)

\* the save pass is over: metadata.json is written
SaverWriteMetadata ==
    /\ s_pc = "save"
    /\ PassOver
    /\ metadata' = Append(metadata,
                          [total_frames_processed |-> Len(all_frames),
                           frames_saved |-> saved_count,
                           detected_region |-> detected_region,
                           fps |-> fps,
                           frames |-> frame_infos])
    /\ s_pc' = "done"
    /\ UNCHANGED <<s_num_workers, s_only_with_text, finished_workers, all_frames,
                   y_coords, img_h, detected_region, regions_computed, arrival, s_idx,
                   last_text_data, saved_count, frame_infos, files>>
    /\ UNCHANGED <<cfgVars, readerVars, workerVars, frame_queue, result_queue>>

(***************************************************************************)
(* video_processor.py: what process_video builds, and the initial states   *)
(***************************************************************************)
\* multiprocessing.Queue(maxsize=100)
QueueMaxsize == 100
\* capacity of the work channel a direct caller hands to the reader
SmallQueue == 2
MaxKeyframesPerScene == 2

\* one OCR block (bbox, text, prob): four corner points, rows y0..y1
Obs(text, y0, y1, prob) ==
    [bbox |-> <<<<0, y0>>, <<8, y0>>, <<8, y1>>, <<0, y1>>>>, text |-> text, prob |-> prob]

Payload(ocr_results, stt_text) == [ocr_results |-> ocr_results, stt_text |-> stt_text]

NoText == Payload(<<>>, <<>>)
BottomRows == <<ImgH - 12, ImgH - 4>>
TopRows == <<2, 8>>
Subtitle(text, stt) == Payload(<<Obs(text, BottomRows[1], BottomRows[2], 90)>>, stt)

\* what recognition returns in the pipeline specifications
PipelinePayloads == {NoText, Subtitle(<<"a", "b">>, <<>>)}

\* scene lists the segmenter may return for a video of T frames
SceneLists(T) ==
    {<<>>, <<<<0, T + 1>>>>}
    \cup {<<<<0, c>>, <<c, T>>>> : c \in 1..(T - 1)}

FpsValues == {25}

InitReader ==
    /\ r_pc = IF strategy = "scene" THEN "calc" ELSE "read"
    /\ frame_count = 0
    /\ kf_idx = 1
    /\ stops_put = 0
    /\ put_log = <<>>
    /\ failed_reads = {}
    /\ cap_calls = <<>>
    /\ frame_queue = <<>>

InitWorkers ==
    /\ w_pc = [w \in Workers |-> "get"]
    /\ batch = [w \in Workers |-> <<>>]
    /\ w_i = [w \in Workers |-> 1]
    /\ w_results = [w \in Workers |-> 0]
    /\ w_stops = [w \in Workers |-> 0]
    /\ w_pulled = [w \in Workers |-> 0]
    /\ w_stops_pulled = [w \in Workers |-> 0]
    /\ w_log = [w \in Workers |-> EmptyLog]

InitSaver ==
    /\ s_pc = "start"
    /\ s_num_workers = 0
    /\ s_only_with_text = FALSE
    /\ finished_workers = 0
    /\ all_frames = <<>>
    /\ y_coords = <<>>
    /\ img_h = 0
    /\ detected_region = <<>>
    /\ regions_computed = 0
    /\ arrival = <<>>
    /\ s_idx = 1
    /\ last_text_data = [ocr_text |-> <<>>, stt_text |-> <<>>]
    /\ saved_count = 0
    /\ frame_infos = <<>>
    /\ files = [f \in {} |-> 0]
    /\ metadata = <<>>

\* the reader's input: frame_reader's interval, or the keyframes of a scene list
InitVideo ==
    /\ total_frames \in 0..MaxFrames
    /\ \/ /\ strategy = "interval"
          /\ frame_interval \in 1..2
          /\ scenes = <<>>
          /\ keyframes_per_scene = 1
          /\ keyframes = <<>>
       \/ /\ strategy \in IF launch = "process_video" THEN {"precalc"}
                          ELSE {"scene", "precalc"}
          /\ frame_interval = 1
          /\ scenes \in SceneLists(total_frames)
          /\ keyframes_per_scene \in 1..MaxKeyframesPerScene
          /\ keyframes = IF strategy = "scene" THEN <<>>
                         ELSE calculate_scene_keyframes(scenes, keyframes_per_scene)

Init ==
    /\ launch \in {"direct", "process_video"}
    /\ num_workers \in 1..MaxWorkers
    /\ batch_size \in 1..MaxBatch
    /\ only_with_text \in IF launch = "process_video" THEN {TRUE} ELSE BOOLEAN
    /\ fps \in FpsValues
    /\ maxsize = IF launch = "process_video" THEN QueueMaxsize ELSE SmallQueue
    /\ ocr_outcomes = PipelinePayloads
    /\ frame_height = ImgH
    /\ InitVideo
    /\ InitReader
    /\ InitWorkers
    /\ result_queue = <<>>
    /\ InitSaver
    /\ NoCall
    /\ NoBatch
    /\ NoExport

\* what the scene-aware readers return: total_keyframes = len(keyframes)
SceneReaderReturn == Len(keyframes)

\* expected_frames of process_video, handed to the saver as its progress total
expected_frames ==
    IF strategy = "interval" THEN (total_frames + frame_interval - 1) \div frame_interval
    ELSE Len(keyframes)

\* results['frames_read'] of process_video
frames_read ==
    IF strategy = "interval" THEN total_frames \div frame_interval ELSE Len(keyframes)

Reader ==
    \/ ReaderReadPut
    \/ ReaderReadEOF
    \/ ReaderReadFail
    \/ ReaderGrab
    \/ SceneCalcKeyframes
    \/ SceneReadPut
    \/ SceneReadSkip
    \/ SceneLoopEnd
    \/ ReaderPutStop

Worker(w) ==
    \/ WorkerGet(w)
    \/ WorkerRecognize(w)
    \/ WorkerPutStop(w)

Saver ==
    \/ SaverStart
    \/ SaverGet
    \/ SaverDetectRegion
    \/ SaverSkipFrame
    \/ SaverSaveFrame
    \/ SaverWriteMetadata

Next ==
    \/ Reader
    \/ \E w \in Workers : Worker(w)
    \/ \E w \in Workers : WorkerRecognizeRaise(w)
    \/ Saver

Spec == Init /\ [][Next]_vars

\* the pipeline when every recognition call returns normally
NextNoRaise ==
    \/ Reader
    \/ \E w \in Workers : Worker(w)
    \/ Saver

NoRaiseSpec == Init /\ [][NextNoRaise]_vars

(***************************************************************************)
(* The saver alone: the reader and the workers have ended, the results     *)
(* channel holds what they put, in any arrival order.                      *)
(***************************************************************************)
SaverTexts == {<<"a", "b">>, <<"A", "b", "!">>, <<"a", "b", "c">>}

SaverPayloads ==
    {NoText, Payload(<<Obs(<<"a", "b">>, TopRows[1], TopRows[2], 40)>>, <<"a", "b">>)}
    \cup {Subtitle(t, <<>>) : t \in SaverTexts}
    \cup {Subtitle(<<"a", "b">>, <<"a", "b">>)}

SaverFrameNumbers == {0, 1}

ResultItems ==
    [frame_number : SaverFrameNumbers, data : SaverPayloads]

\* n sentinels
Stops(n) == [i \in 1..n |-> StopItem]

Arrivals(n) ==
    {Stops(pre) \o r \o Stops(n - pre) :
        pre \in 0..(n - 1),
        r \in UNION {[1..len -> ResultItems] : len \in 0..MaxResults}}

SaverInit ==
    /\ launch = "direct"
    /\ num_workers \in 1..MaxWorkers
    /\ batch_size = 1
    /\ only_with_text \in BOOLEAN
    /\ fps \in FpsValues
    /\ maxsize = SmallQueue
    /\ ocr_outcomes = SaverPayloads
    /\ frame_height = ImgH
    /\ strategy = "interval"
    /\ frame_interval = 1
    /\ total_frames = MaxResults
    /\ scenes = <<>>
    /\ keyframes_per_scene = 1
    /\ keyframes = <<>>
    /\ r_pc = "done"
    /\ frame_count = total_frames
    /\ kf_idx = 1
    /\ stops_put = num_workers
    /\ put_log = <<>>
    /\ failed_reads = {}
    /\ cap_calls = <<>>
    /\ frame_queue = <<>>
    /\ w_pc = [w \in Workers |-> "done"]
    /\ batch = [w \in Workers |-> <<>>]
    /\ w_i = [w \in Workers |-> 1]
    /\ w_results = [w \in Workers |-> 0]
    /\ w_stops = [w \in Workers |-> 1]
    /\ w_pulled = [w \in Workers |-> 0]
    /\ w_stops_pulled = [w \in Workers |-> 1]
    /\ w_log = [w \in Workers |-> EmptyLog]
    /\ result_queue \in Arrivals(num_workers)
    /\ InitSaver
    /\ NoCall
    /\ NoBatch
    /\ NoExport

SaverSpec == SaverInit /\ [][Saver]_vars

(***************************************************************************)
(* The end-to-end scenario: a 10-frame video, interval 2, batch size 2,    *)
(* one worker, every frame without text, only_with_text = False.           *)
(***************************************************************************)
ScenarioInit ==
    /\ launch = "direct"
    /\ num_workers = 1
    /\ batch_size = 2
    /\ only_with_text = FALSE
    /\ fps \in FpsValues
    /\ maxsize = QueueMaxsize
    /\ ocr_outcomes = {NoText}
    /\ frame_height = ImgH
    /\ strategy = "interval"
    /\ frame_interval = 2
    /\ total_frames = 10
    /\ scenes = <<>>
    /\ keyframes_per_scene = 1
    /\ keyframes = <<>>
    /\ InitReader
    /\ InitWorkers
    /\ result_queue = <<>>
    /\ InitSaver
    /\ NoCall
    /\ NoBatch
    /\ NoExport

\* SaverSaveFrame is left out: no frame of the scenario has text, and it never is enabled
ScenarioNext ==
    \/ ReaderReadPut
    \/ ReaderReadEOF
    \/ ReaderGrab
    \/ ReaderPutStop
    \/ \E w \in Workers : Worker(w)
    \/ SaverStart
    \/ SaverGet
    \/ SaverDetectRegion
    \/ SaverSkipFrame
    \/ SaverWriteMetadata

ScenarioSpec == ScenarioInit /\ [][ScenarioNext]_vars

(***************************************************************************)
(* Region inference: the saver alone on one frame of any height carrying   *)
(* up to MaxBlocks text blocks, or on no frame at all.                     *)
(***************************************************************************)
MaxBlocks == 2
TallFrame == 240
RegionHeights == {1, 20, ImgH, TallFrame}
BlockRows == {0, 1, 10, 12, 16, 18, 38, 45}

\* the blocks recognition may find: rows y0..y1 of the frame, some of them past its
\* last row or of height zero
RegionBlocks ==
    {Obs(<<"a", "b">>, yy[1], yy[2], 90) :
        yy \in {p \in BlockRows \X BlockRows : p[1] <= p[2]}}

RegionPayloads ==
    {Payload(blocks, <<>>) :
        blocks \in UNION {[1..len -> RegionBlocks] : len \in 0..MaxBlocks}}

RegionInit ==
    /\ launch = "direct"
    /\ num_workers = 1
    /\ batch_size = 1
    /\ only_with_text = FALSE
    /\ fps \in FpsValues
    /\ maxsize = SmallQueue
    /\ ocr_outcomes = {NoText}
    /\ frame_height \in RegionHeights
    /\ strategy = "interval"
    /\ frame_interval = 1
    /\ total_frames = 1
    /\ scenes = <<>>
    /\ keyframes_per_scene = 1
    /\ keyframes = <<>>
    /\ r_pc = "done"
    /\ frame_count = total_frames
    /\ kf_idx = 1
    /\ stops_put = num_workers
    /\ put_log = <<>>
    /\ failed_reads = {}
    /\ cap_calls = <<>>
    /\ frame_queue = <<>>
    /\ w_pc = [w \in Workers |-> "done"]
    /\ batch = [w \in Workers |-> <<>>]
    /\ w_i = [w \in Workers |-> 1]
    /\ w_results = [w \in Workers |-> 0]
    /\ w_stops = [w \in Workers |-> 1]
    /\ w_pulled = [w \in Workers |-> 0]
    /\ w_stops_pulled = [w \in Workers |-> 1]
    /\ w_log = [w \in Workers |-> EmptyLog]
    /\ \/ result_queue = <<StopItem>>
       \/ \E data \in RegionPayloads :
             result_queue = <<[frame_number |-> 0, data |-> data], StopItem>>
    /\ InitSaver
    /\ NoCall
    /\ NoBatch
    /\ NoExport

RegionSpec == RegionInit /\ [][Saver]_vars

(***************************************************************************)
(* Keyframe selection: scene_aware_frame_reader alone on every ordered     *)
(* list of up to MaxScenes non-overlapping scenes.                         *)
(***************************************************************************)
MaxSceneEnd == 7
MaxScenes == 2
MaxK == 4

SceneIntervals == {sc \in (0..MaxSceneEnd) \X (0..MaxSceneEnd) : sc[1] < sc[2]}

OrderedSceneLists ==
    {l \in UNION {[1..n -> SceneIntervals] : n \in 0..MaxScenes} :
        \A i \in 1..(Len(l) - 1) : l[i][2] <= l[i + 1][1]}

KeyframeInit ==
    /\ launch = "direct"
    /\ num_workers = 1
    /\ batch_size = 1
    /\ only_with_text = FALSE
    /\ fps \in FpsValues
    /\ maxsize = QueueMaxsize
    /\ ocr_outcomes = {NoText}
    /\ frame_height = ImgH
    /\ strategy = "scene"
    /\ frame_interval = 1
    /\ total_frames = MaxSceneEnd
    /\ scenes \in OrderedSceneLists
    /\ keyframes_per_scene \in 1..MaxK
    /\ keyframes = <<>>
    /\ InitReader
    /\ InitWorkers
    /\ result_queue = <<>>
    /\ InitSaver
    /\ NoCall
    /\ NoBatch
    /\ NoExport

KeyframeNext ==
    \/ SceneCalcKeyframes
    \/ SceneReadPut
    \/ SceneReadSkip
    \/ SceneLoopEnd
    \/ ReaderPutStop

KeyframeSpec == KeyframeInit /\ [][KeyframeNext]_vars

(***************************************************************************)
(* Backpressure: process_video on a video with more frames than the work   *)
(* channel holds, one worker, every frame sampled.                         *)
(***************************************************************************)
FramesOverCapacity == 2

BackpressureInit ==
    /\ launch = "process_video"
    /\ num_workers = 1
    /\ batch_size = 1
    /\ only_with_text = FALSE
    /\ fps \in FpsValues
    /\ maxsize = QueueMaxsize
    /\ ocr_outcomes = {NoText}
    /\ frame_height = ImgH
    /\ strategy = "interval"
    /\ frame_interval = 1
    /\ total_frames = QueueMaxsize + FramesOverCapacity
    /\ scenes = <<>>
    /\ keyframes_per_scene = 1
    /\ keyframes = <<>>
    /\ InitReader
    /\ InitWorkers
    /\ result_queue = <<>>
    /\ InitSaver
    /\ NoCall
    /\ NoBatch
    /\ NoExport

BackpressureNext ==
    \/ ReaderReadPut
    \/ ReaderReadEOF
    \/ ReaderPutStop
    \/ \E w \in Workers : Worker(w)
    \/ SaverStart

BackpressureSpec == BackpressureInit /\ [][BackpressureNext]_vars

(***************************************************************************)
(* Interval sampling: process_video's frame_reader alone on a video of up  *)
(* to MaxTotal frames that all decode, every interval up to MaxInterval.   *)
(***************************************************************************)
MaxTotal == 7
MaxInterval == 3

IntervalInit ==
    /\ launch = "process_video"
    /\ num_workers \in 1..MaxWorkers
    /\ batch_size = 1
    /\ only_with_text = FALSE
    /\ fps \in FpsValues
    /\ maxsize = QueueMaxsize
    /\ ocr_outcomes = {NoText}
    /\ frame_height = ImgH
    /\ strategy = "interval"
    /\ frame_interval \in 1..MaxInterval
    /\ total_frames \in 0..MaxTotal
    /\ scenes = <<>>
    /\ keyframes_per_scene = 1
    /\ keyframes = <<>>
    /\ InitReader
    /\ InitWorkers
    /\ result_queue = <<>>
    /\ InitSaver
    /\ NoCall
    /\ NoBatch
    /\ NoExport

IntervalNext ==
    \/ ReaderReadPut
    \/ ReaderReadEOF
    \/ ReaderGrab
    \/ ReaderPutStop

IntervalSpec == IntervalInit /\ [][IntervalNext]_vars

(***************************************************************************)
(* The text utilities called on their own: normalize_text and              *)
(* has_meaningful_text on every text of up to MaxTextLen characters,       *)
(* should_save_frame on candidate texts and last-saved states.             *)
(***************************************************************************)
MaxTextLen == 3

TextChars == {"a", "B", "!", " ", "Zh"}
Texts == UNION {[1..n -> TextChars] : n \in 0..MaxTextLen}

CandidateOcrTexts == {<<>>, <<"a">>, <<"a", "!">>, <<"a", "b">>, <<"a", "b", "c">>}
CandidateSttTexts == {<<>>, <<"a", "b">>}
LastSaved == [ocr_text : {<<>>, <<"a", "b">>}, stt_text : CandidateSttTexts]

CallInit ==
    /\ launch = "direct"
    /\ num_workers = 1
    /\ batch_size = 1
    /\ only_with_text = FALSE
    /\ fps \in FpsValues
    /\ maxsize = SmallQueue
    /\ ocr_outcomes = {NoText}
    /\ frame_height = ImgH
    /\ strategy = "interval"
    /\ frame_interval = 1
    /\ total_frames = 0
    /\ scenes = <<>>
    /\ keyframes_per_scene = 1
    /\ keyframes = <<>>
    /\ InitReader
    /\ InitWorkers
    /\ result_queue = <<>>
    /\ InitSaver
    /\ NoBatch
    /\ NoExport
    /\ call_out = NoValue
    /\ \/ \E t \in Texts : call_in = [fn |-> "normalize_text", text |-> t]
       \/ \E o \in CandidateOcrTexts, st \in CandidateSttTexts, l \in LastSaved, owt \in BOOLEAN :
             call_in = [fn |-> "should_save_frame", ocr_text |-> o, stt_text |-> st,
                        last_text_data |-> l, only_with_text |-> owt]

CallUnchanged ==
    UNCHANGED <<videoVars, call_in, batchVars, sql_file, keyframes, readerVars, workerVars, saverVars,
                frame_queue, result_queue>>

\* normalize_text(text) and has_meaningful_text(text)
CallNormalize ==
    /\ call_in.fn = "normalize_text" /\ call_out = NoValue
    /\ call_out' = [fn |-> call_in.fn,
                    normalized |-> normalize_text(call_in.text),
                    meaningful |-> has_meaningful_text(call_in.text)]
    /\ CallUnchanged

\* should_save_frame(ocr_text, stt_text, last_text_data, only_with_text)
CallShouldSave ==
    /\ call_in.fn = "should_save_frame" /\ call_out = NoValue
    /\ call_out' = [fn |-> call_in.fn,
                    save |-> should_save_frame(call_in.ocr_text, call_in.stt_text,
                                               call_in.last_text_data, call_in.only_with_text)]
    /\ CallUnchanged

CallNext == CallNormalize \/ CallShouldSave

CallSpec == CallInit /\ [][CallNext]_vars

(***************************************************************************)
(* process_multiple_videos: a list of up to MaxVideos video paths handed   *)
(* to process_video one after the other, with the same keyword arguments.  *)
(* Before the first call no pipeline process exists: every position is at  *)
(* its end.                                                                *)
(***************************************************************************)
MaxVideos == 2

\* the video files: a path that does not exist, and two videos that do
VideoFiles ==
    {[path |-> "missing.mp4", exists |-> FALSE, total_frames |-> 0],
     [path |-> "a.mp4", exists |-> TRUE, total_frames |-> 1],
     [path |-> "b.mp4", exists |-> TRUE, total_frames |-> 2]}

BatchInit ==
    /\ launch = "process_video"
    /\ num_workers \in 1..MaxWorkers
    /\ batch_size \in 1..MaxBatch
    /\ only_with_text = TRUE
    /\ fps \in FpsValues
    /\ maxsize = QueueMaxsize
    /\ ocr_outcomes = PipelinePayloads
    /\ frame_height = ImgH
    /\ strategy = "interval"
    /\ frame_interval \in 0..1
    /\ total_frames = 0
    /\ scenes = <<>>
    /\ keyframes_per_scene = 1
    /\ keyframes = <<>>
    /\ r_pc = "done"
    /\ frame_count = 0
    /\ kf_idx = 1
    /\ stops_put = 0
    /\ put_log = <<>>
    /\ failed_reads = {}
    /\ cap_calls = <<>>
    /\ frame_queue = <<>>
    /\ w_pc = [w \in Workers |-> "done"]
    /\ batch = [w \in Workers |-> <<>>]
    /\ w_i = [w \in Workers |-> 1]
    /\ w_results = [w \in Workers |-> 0]
    /\ w_stops = [w \in Workers |-> 0]
    /\ w_pulled = [w \in Workers |-> 0]
    /\ w_stops_pulled = [w \in Workers |-> 0]
    /\ w_log = [w \in Workers |-> EmptyLog]
    /\ result_queue = <<>>
    /\ s_pc = "done"
    /\ s_num_workers = 0
    /\ s_only_with_text = FALSE
    /\ finished_workers = 0
    /\ all_frames = <<>>
    /\ y_coords = <<>>
    /\ img_h = 0
    /\ detected_region = <<>>
    /\ regions_computed = 0
    /\ arrival = <<>>
    /\ s_idx = 1
    /\ last_text_data = [ocr_text |-> <<>>, stt_text |-> <<>>]
    /\ saved_count = 0
    /\ frame_infos = <<>>
    /\ files = [f \in {} |-> 0]
    /\ metadata = <<>>
    /\ NoCall
    /\ NoExport
    /\ video_paths \in UNION {[1..n -> VideoFiles] : n \in 0..MaxVideos}
    /\ v_idx = 1
    /\ results = <<>>
    /\ b_pc = "loop"
    /\ started = <<>>

\* what process_video raises before it starts a process: FileNotFoundError for a
\* missing file, ZeroDivisionError in expected_frames for frame_interval = 0
Raises(v) ==
    IF ~v.exists THEN "FileNotFoundError"
    ELSE IF strategy = "interval" /\ frame_interval = 0 THEN "ZeroDivisionError"
    ELSE "none"

\* faulty variant of ResultsAfterError: the exception is swallowed without an entry
ResultsAfterError_NoEntry(res, v, e) == res

\* "except Exception as e: results.append({...})"
ResultsAfterError(res, v, e) ==
    Append(res, [video_path |-> v.path, error |-> e, success |-> FALSE])

\* the results dictionary process_video returns
VideoResult(v) ==
    [video_path |-> v.path, total_frames |-> total_frames, frames_read |-> frames_read]

\* the reader, every worker and the saver of the video have ended
ReaderEnded == r_pc = "done"
WorkersEnded == \A w \in Workers : w_pc[w] \in {"done", "crashed"}
SaverEnded == s_pc \in {"done", "crashed"}

\* faulty variant of Joined: process_video returns without saver_process.join()
Joined_NoSaverJoin == ReaderEnded /\ WorkersEnded

\* frame_reader_process.join(), p.join() for every worker, saver_process.join()
Joined == ReaderEnded /\ WorkersEnded /\ SaverEnded

\* process_video raises: the loop's except clause records the error and goes on
ProcessVideoRaise ==
    /\ b_pc = "loop"
    /\ v_idx <= Len(video_paths)
    /\ Raises(video_paths[v_idx]) # "none"
    /\ results' = ResultsAfterError(results, video_paths[v_idx], Raises(video_paths[v_idx]))
    /\ v_idx' = v_idx + 1
    /\ UNCHANGED <<video_paths, b_pc, started>>
    /\ UNCHANGED <<videoVars, call_in, call_out, sql_file, keyframes, readerVars, workerVars, saverVars,
                   frame_queue, result_queue>>

\* process_video up to the start of the reader: the video's frame count, two new
\* channels, the workers, the saver and the reader are started
ProcessVideoStart ==
    /\ b_pc = "loop"
    /\ v_idx <= Len(video_paths)
    /\ Raises(video_paths[v_idx]) = "none"
    /\ total_frames' = video_paths[v_idx].total_frames
    /\ frame_queue' = <<>>
    /\ result_queue' = <<>>
    /\ w_pc' = [w \in Workers |-> "get"]
    /\ batch' = [w \in Workers |-> <<>>]
    /\ w_i' = [w \in Workers |-> 1]
    /\ w_results' = [w \in Workers |-> 0]
    /\ w_stops' = [w \in Workers |-> 0]
    /\ w_pulled' = [w \in Workers |-> 0]
    /\ w_stops_pulled' = [w \in Workers |-> 0]
    /\ w_log' = [w \in Workers |-> EmptyLog]
    /\ s_pc' = "start"
    /\ s_num_workers' = 0
    /\ s_only_with_text' = FALSE
    /\ finished_workers' = 0
    /\ all_frames' = <<>>
    /\ y_coords' = <<>>
    /\ img_h' = 0
    /\ detected_region' = <<>>
    /\ regions_computed' = 0
    /\ arrival' = <<>>
    /\ s_idx' = 1
    /\ last_text_data' = [ocr_text |-> <<>>, stt_text |-> <<>>]
    /\ saved_count' = 0
    /\ frame_infos' = <<>>
    /\ files' = [f \in {} |-> 0]
    /\ metadata' = <<>>
    /\ r_pc' = "read"
    /\ frame_count' = 0
    /\ kf_idx' = 1
    /\ stops_put' = 0
    /\ put_log' = <<>>
    /\ failed_reads' = {}
    /\ cap_calls' = <<>>
    /\ started' = Append(started, v_idx)
    /\ b_pc' = "running"
    /\ UNCHANGED <<video_paths, v_idx, results>>
    /\ UNCHANGED <<launch, num_workers, batch_size, only_with_text, fps, strategy,
                   frame_interval, frame_height, scenes, keyframes_per_scene, maxsize,
                   ocr_outcomes, call_in, call_out, sql_file, keyframes>>

\* the joins of process_video return: its results are appended, the loop goes on
ProcessVideoReturn ==
    /\ b_pc = "running"
    /\ Joined
    /\ results' = Append(results, VideoResult(video_paths[v_idx]))
    /\ v_idx' = v_idx + 1
    /\ b_pc' = "loop"
    /\ UNCHANGED <<video_paths, started>>
    /\ UNCHANGED <<videoVars, call_in, call_out, sql_file, keyframes, readerVars, workerVars, saverVars,
                   frame_queue, result_queue>>

\* the loop is over every path: return results
BatchReturn ==
    /\ b_pc = "loop"
    /\ v_idx > Len(video_paths)
    /\ b_pc' = "returned"
    /\ UNCHANGED <<video_paths, v_idx, results, started>>
    /\ UNCHANGED <<videoVars, call_in, call_out, sql_file, keyframes, readerVars, workerVars, saverVars,
                   frame_queue, result_queue>>

BatchNext ==
    \/ ProcessVideoRaise
    \/ ProcessVideoStart
    \/ ProcessVideoReturn
    \/ BatchReturn
    \/ ReaderReadPut
    \/ ReaderReadEOF
    \/ ReaderReadFail
    \/ ReaderPutStop
    \/ \E w \in Workers : Worker(w)
    \/ \E w \in Workers : WorkerRecognizeRaise(w)
    \/ SaverStart

BatchSpec == BatchInit /\ [][BatchNext]_vars

(***************************************************************************)
(* generate_sql.py: generate_d1_sql run on the output directory of the     *)
(* saver, after the saver alone has written metadata.json.                 *)
(***************************************************************************)
\* dict.get(key, default) on an object read back by json.load
Get(obj, key, default) == IF key \in DOMAIN obj THEN obj[key] ELSE default

\* text.replace("'", "''")
RECURSIVE SqlEscape(_)
SqlEscape(t) ==
    IF t = <<>> THEN <<>>
    ELSE (IF Head(t) = "'" THEN <<"'", "'">> ELSE <<Head(t)>>) \o SqlEscape(Tail(t))

\* r2_base_url.rstrip('/')
RECURSIVE RStripSlash(_)
RStripSlash(u) ==
    IF u # <<>> /\ u[Len(u)] = "/" THEN RStripSlash(SubSeq(u, 1, Len(u) - 1)) ELSE u

\* the r2_base_url arguments: none, and a URL that ends with a slash
R2Urls == {<<>>, <<"r2", "/">>}
VideoDirName == <<"video">>

\* the INSERT statement of one frame of the metadata document
InsertRow(frame, r2_base_url) ==
    LET filename == Get(frame, "filename", <<>>)
        filepath == IF r2_base_url # <<>>
                    THEN RStripSlash(r2_base_url) \o <<"/">> \o VideoDirName \o <<"/">> \o filename
                    ELSE VideoDirName \o <<"/">> \o filename
        text == SqlEscape(Get(frame, "text", <<>>))
    IN [filename |-> filename,
        filepath |-> filepath,
        frame_number |-> Get(frame, "frame_number", 0),
        timestamp |-> Get(frame, "timestamp", 0),
        ocr_text |-> text,
        subtitle |-> text]

\* generate_d1_sql on a directory that holds metadata.json (without it, it returns
\* False and writes nothing): one INSERT per frame, the file is written anew
GenerateD1Sql ==
    /\ metadata # <<>>
    /\ \E r2_base_url \in R2Urls :
         LET frames == Get(metadata[Len(metadata)], "frames", <<>>)
         IN sql_file' = [written |-> TRUE,
                         rows |-> [k \in 1..Len(frames) |-> InsertRow(frames[k], r2_base_url)]]
    /\ UNCHANGED <<videoVars, call_in, call_out, batchVars, keyframes, readerVars, workerVars,
                   saverVars, frame_queue, result_queue>>

ExportNext == Saver \/ GenerateD1Sql

ExportSpec == SaverInit /\ [][ExportNext]_vars

(***************************************************************************)
(* Properties                                                              *)
(***************************************************************************)
Count(seq, x) == Cardinality({i \in 1..Len(seq) : seq[i] = x})
Range(seq) == {seq[i] : i \in 1..Len(seq)}

\* the frame numbers the reader has put on the work channel, in order
FramesPut ==
    LET fs == SelectSeq(put_log, LAMBDA it : ~IsStop(it))
    IN [i \in 1..Len(fs) |-> fs[i].frame_number]

\* the frame numbers the saver has collected
FramesCollected == [i \in 1..Len(all_frames) |-> all_frames[i].frame_number]

StopsIn(seq) == Cardinality({i \in 1..Len(seq) : IsStop(seq[i])})

WorkerEnded(w) == w_pc[w] \in {"done", "crashed"}

\* the saver has left its collection loop
LeftCollection == s_pc \in {"collect", "save", "done"} /\ ~Collecting

\* C1: once the saver has left its collection loop, its collected list holds every
\* frame the reader put on the work channel exactly once (none lost, none duplicated)
C1_CollectedExactlyOnce ==
    LeftCollection =>
        \A n \in Range(FramesPut) \cup Range(FramesCollected) :
            Count(FramesCollected, n) = Count(FramesPut, n)

\* two workers with batch size 2 each flushed a partial batch of one frame, and the
\* saver has left the loop with both frames
C1_Witness ==
    /\ s_pc = "save"
    /\ num_workers = 2 /\ batch_size = 2
    /\ \A w \in Workers : w_results[w] = 1 /\ w_pc[w] = "done"
    /\ Len(all_frames) = 2

\* C2: when recognition calls return normally, once the reader, every worker and
\* the saver process have all ended, the saver has finished its pass having received
\* exactly num_workers sentinels
C2_AllEndWithAllSentinels ==
    (r_pc = "done" /\ (\A w \in Workers : WorkerEnded(w)) /\ s_pc \in {"done", "crashed"}) =>
        /\ \A w \in Workers : w_pc[w] = "done"
        /\ s_pc = "done"
        /\ finished_workers = num_workers

\* C3: a recognition failure never aborts a worker
C3_RecognitionFailureCaught == \A w \in Workers : w_pc[w] # "crashed"

\* C4: every worker that has ended, also after an error, has emitted exactly one
\* sentinel on the results channel
C4_SentinelForwardedAfterError == \A w \in Workers : WorkerEnded(w) => w_stops[w] = 1

\* C5: the saver that process_video started does not end before it has received
\* one sentinel per worker that process_video started
C5_SaverWaitsForAllWorkers ==
    (launch = "process_video" /\ s_pc \notin {"start", "collect"}) =>
        finished_workers = num_workers

\* C6: the reader never puts more than num_workers sentinels, no frame follows a
\* sentinel on the work channel, and a reader that has ended has put exactly
\* num_workers sentinels
C6_ReaderSentinels ==
    /\ StopsIn(put_log) = stops_put
    /\ stops_put <= num_workers
    /\ \A i, j \in 1..Len(put_log) : (i < j /\ IsStop(put_log[i])) => IsStop(put_log[j])
    /\ r_pc = "done" => StopsIn(put_log) = num_workers

\* a scene-aware reader ended after a failed read and a successful one, two workers
C6_Witness ==
    /\ r_pc = "done"
    /\ strategy \in {"scene", "precalc"}
    /\ num_workers = 2
    /\ failed_reads # {}
    /\ Len(FramesPut) >= 1

\* C7: a worker that pulled a sentinel and has ended has emitted a result for every
\* frame it pulled and exactly one sentinel
C7_FlushThenOneSentinel ==
    \A w \in Workers :
        (w_stops_pulled[w] >= 1 /\ WorkerEnded(w)) =>
            (w_results[w] = w_pulled[w] /\ w_stops[w] = 1)

RecordsSorted(infos) ==
    \A i \in 1..(Len(infos) - 1) : infos[i].frame_number <= infos[i + 1].frame_number

RecordsNumbered(infos) == \A i \in 1..Len(infos) : infos[i].saved_count = i - 1

\* C8: whatever the arrival order, the FrameRecord list is sorted by frame_number
\* ascending and its saved_count values are 0, 1, ..., count-1 in list order, in
\* the saver's list and in the metadata document
C8_RecordsSortedAndNumbered ==
    /\ RecordsSorted(frame_infos) /\ RecordsNumbered(frame_infos)
    /\ \A d \in 1..Len(metadata) :
          RecordsSorted(metadata[d].frames) /\ RecordsNumbered(metadata[d].frames)

\* results arrived out of frame order and two records were written
C8_Witness ==
    /\ s_pc = "done"
    /\ \E i \in 1..(Len(arrival) - 1) : arrival[i] > arrival[i + 1]
    /\ Len(metadata) = 1 /\ Len(metadata[1].frames) >= 2
    /\ metadata[1].frames[1].frame_number < metadata[1].frames[2].frame_number

\* C9: every saved frame but the first has normalized text whose similarity ratio to
\* the previously saved frame's normalized text is below the threshold
C9_SavedOnlyIfTextDiffers ==
    \A i \in 2..Len(frame_infos) :
        RatioBelow(normalize_text(frame_infos[i - 1].ocr_text),
                   normalize_text(frame_infos[i].ocr_text), 85)

\* C10: in the end-to-end scenario the first sampled frame, index 0, is saved
C10_FirstSampledFrameSaved ==
    s_pc = "done" => \E i \in 1..Len(frame_infos) : frame_infos[i].frame_number = 0

\* the frames the save pass has been over whose region-filtered OCR text is not empty
PassedWithText ==
    {i \in 1..Min2(s_idx - 1, Len(all_frames)) :
        Strip(filter_ocr_results_by_region(all_frames[i].data.ocr_results,
                                           detected_region)) # <<>>}

\* C11: a frame whose region-filtered OCR text is empty after stripping is never
\* persisted and never appears in the FrameRecord list: every record and every image
\* file belongs to a frame of the pass whose filtered text is not empty, whatever
\* only_with_text, the STT text and the last-saved state
C11_NoTextNeverPersisted ==
    s_pc \in {"save", "done"} =>
        /\ \A k \in 1..Len(frame_infos) :
              /\ Strip(frame_infos[k].ocr_text) # <<>>
              /\ \E i \in PassedWithText :
                    /\ all_frames[i].frame_number = frame_infos[k].frame_number
                    /\ filter_ocr_results_by_region(all_frames[i].data.ocr_results,
                                                    detected_region) = frame_infos[k].ocr_text
        /\ \A f \in DOMAIN files :
              \E i \in PassedWithText : all_frames[i].frame_number = files[f]
        /\ Len(frame_infos) <= Cardinality(PassedWithText)
        /\ Cardinality(DOMAIN files) <= Cardinality(PassedWithText)

\* the pass is over; a frame with STT text whose only OCR block lies outside the
\* region was passed with only_with_text off, and another frame was saved
C11_Witness ==
    /\ s_pc = "done"
    /\ ~s_only_with_text
    /\ Len(frame_infos) >= 1
    /\ \E i \in 1..Len(all_frames) :
          /\ i \notin PassedWithText
          /\ all_frames[i].data.ocr_results # <<>>
          /\ all_frames[i].data.stt_text # <<>>

\* C12: the metadata document is written at most once, and exactly once by a saver
\* that has ended its run; a document exists only when the save pass over all
\* collected frames has finished, and its frame list is the complete FrameRecord
\* list of the pass
C12_MetadataOnceAfterPass ==
    /\ Len(metadata) <= 1
    /\ (Len(metadata) = 1) <=> (s_pc = "done")
    /\ metadata # <<>> =>
          /\ s_idx = Len(all_frames) + 1
          /\ metadata[1].frames = frame_infos
          /\ metadata[1].frames_saved = Len(frame_infos)
          /\ metadata[1].total_frames_processed = Len(all_frames)

\* the document was written after a pass over three frames of which two were saved
C12_Witness ==
    /\ Len(metadata) = 1
    /\ metadata[1].total_frames_processed = 3
    /\ metadata[1].frames_saved = 2

\* the (y_min, y_max) pairs of every frame of a list, frame after frame
RECURSIVE ObservationsOf(_)
ObservationsOf(frames) ==
    IF frames = <<>> THEN <<>>
    ELSE FrameYCoords(Head(frames).data.ocr_results) \o ObservationsOf(Tail(frames))

\* C13: the subtitle region is computed at most once, and once by the time the save
\* pass starts; it is computed only after all num_workers sentinels were received and
\* before any frame file or record is written; through the whole pass and after it,
\* its value is the one computed from the observations of all collected frames
C13_RegionOnceFromAllFrames ==
    /\ regions_computed <= 1
    /\ (regions_computed = 1) <=> (s_pc \in {"save", "done"})
    /\ regions_computed = 0 => (DOMAIN files = {} /\ frame_infos = <<>> /\ metadata = <<>>)
    /\ regions_computed = 1 =>
          /\ finished_workers = num_workers
          /\ detected_region = calculate_region_from_coords(ObservationsOf(all_frames), img_h)
          /\ \A d \in 1..Len(metadata) : metadata[d].detected_region = detected_region

\* two workers, results collected out of frame order; the region was inferred from
\* the blocks of at least two frames and a frame was written during the pass
C13_Witness ==
    /\ s_pc = "done"
    /\ num_workers = 2
    /\ Len(arrival) >= 2 /\ arrival[1] > arrival[2]
    /\ Len(y_coords) >= 2
    /\ detected_region # FallbackRegion(img_h)
    /\ DOMAIN files # {}

\* the rows of a frame of height h
Rows(h) == 0..(h - 1)

\* what the observations ys say about a frame of height h: the maximum row coverage,
\* the rows whose coverage is at least 50% of it, the first and last of these rows
\* (the selected band before padding) and the band's height after padding and clipping
Band(ys, h) ==
    LET cov == [r \in Rows(h) |-> Coverage(ys, h, r)]
        maxcov == SetMax({cov[r] : r \in Rows(h)} \cup {0})
        rows == {r \in Rows(h) : 2 * cov[r] >= maxcov}
        first == IF rows = {} THEN 0 ELSE SetMin(rows)
        last == IF rows = {} THEN 0 ELSE SetMax(rows)
    IN [cov |-> cov, maxcov |-> maxcov, rows |-> rows, first |-> first, last |-> last,
        height |-> Min2(h, last + RegionPad) - Max2(0, first - RegionPad)]

BandTooThin(b, h) == b.maxcov > 0 /\ 100 * b.height < 5 * h
BandTooTall(b, h) == b.maxcov > 0 /\ 100 * b.height > 80 * h

\* the cases in which region inference falls back
FallsBack(ys, h) ==
    LET b == Band(ys, h)
    IN \/ ys = <<>>
       \/ b.maxcov = 0
       \/ BandTooThin(b, h)
       \/ BandTooTall(b, h)

\* C14: for every image height H, the inferred region is (floor(0.66*H), H) when
\* there are no observations, when the maximum row coverage is zero, or when the
\* padded and clipped band is lower than 5% of H or higher than 80% of H
C14_RegionFallback ==
    (regions_computed = 1 /\ FallsBack(y_coords, img_h)) =>
        detected_region = <<(66 * img_h) \div 100, img_h>>

\* a block on the first row of a tall frame: the padded band is below 5% of the height
C14_Witness ==
    /\ regions_computed = 1
    /\ y_coords # <<>>
    /\ BandTooThin(Band(y_coords, img_h), img_h)
    /\ img_h = TallFrame
    /\ detected_region = <<(66 * TallFrame) \div 100, TallFrame>>

\* C15: when region inference does not fall back, every row of the selected band
\* before padding (from the first to the last selected row) has coverage of at least
\* 50% of the maximum coverage, also when the observations form separated clusters
C15_BandRowsAllCovered ==
    (regions_computed = 1 /\ y_coords # <<>> /\ ~FallsBack(y_coords, img_h)) =>
        LET b == Band(y_coords, img_h)
        IN /\ detected_region = <<Max2(0, b.first - RegionPad), Min2(img_h, b.last + RegionPad)>>
           /\ \A r \in b.first..b.last : 2 * b.cov[r] >= b.maxcov

\* the keyframes have been computed from the scene list
KeyframesComputed == strategy = "precalc" \/ (strategy = "scene" /\ r_pc # "calc")

\* C16: for every ordered list of non-overlapping scenes (start < end) and every
\* k >= 1, the keyframe list is sorted ascending, has no duplicate index, and each of
\* its indices lies in [start, end) of some scene
C16_KeyframesSortedInScenes ==
    KeyframesComputed =>
        /\ \A i \in 1..(Len(keyframes) - 1) : keyframes[i] < keyframes[i + 1]
        /\ Cardinality(Range(keyframes)) = Len(keyframes)
        /\ \A i \in 1..Len(keyframes) :
              \E j \in 1..Len(scenes) :
                  scenes[j][1] <= keyframes[i] /\ keyframes[i] < scenes[j][2]

\* two scenes with a gap between them, the second longer than k: keyframes of both
C16_Witness ==
    /\ strategy = "scene" /\ r_pc = "read"
    /\ Len(scenes) = 2
    /\ scenes[1][2] < scenes[2][1]
    /\ scenes[2][2] - scenes[2][1] > keyframes_per_scene
    /\ keyframes_per_scene >= 2
    /\ Len(keyframes) >= 3

\* the keyframes that lie in scene j
KeyframesIn(j) == {f \in Range(keyframes) : scenes[j][1] <= f /\ f < scenes[j][2]}

\* how many indices the scenes of a list are to contribute: L when L <= k, else k
RECURSIVE ExpectedCount(_, _)
ExpectedCount(scs, k) ==
    IF scs = <<>> THEN 0
    ELSE Min2(Head(scs)[2] - Head(scs)[1], k) + ExpectedCount(Tail(scs), k)

\* C17: a scene of length L <= k contributes all L indices of [start, end); a scene
\* of length L > k contributes exactly k indices, start + i*floor(L/k), i = 0..k-1;
\* the list holds nothing else
C17_KeyframesPerScene ==
    KeyframesComputed =>
      /\ Len(keyframes) = ExpectedCount(scenes, keyframes_per_scene)
      /\ \A j \in 1..Len(scenes) :
            LET start == scenes[j][1]
                L == scenes[j][2] - scenes[j][1]
                k == keyframes_per_scene
            IN IF L <= k
               THEN KeyframesIn(j) = start..(scenes[j][2] - 1)
               ELSE /\ KeyframesIn(j) = {start + i * (L \div k) : i \in 0..(k - 1)}
                    /\ Cardinality(KeyframesIn(j)) = k

\* a scene of length 7 with k = 4 (spacing 1) next to no other, and k keyframes
C17_Witness ==
    /\ strategy = "scene" /\ r_pc = "read"
    /\ scenes = <<<<0, 7>>>>
    /\ keyframes_per_scene = 4
    /\ keyframes = <<0, 1, 2, 3>>

\* C19: a scene-aware reader that has ended has put every keyframe but those whose
\* seek+decode failed, in order, and the total it returns, which process_video
\* reports as frames read, is the number of frames it put on the work channel
C19_SkippedKeyframeNotCounted ==
    (r_pc = "done" /\ strategy \in {"scene", "precalc"}) =>
        /\ FramesPut = SelectSeq(keyframes, LAMBDA f : f \notin failed_reads)
        /\ SceneReaderReturn = Len(FramesPut)
        /\ launch = "process_video" => frames_read = Len(FramesPut)

\* C20: an interval reader that has left its loop has put every sampled index below
\* the frame count whose read did not fail: a failed read skips only that frame
C20_LaterFramesStillPut ==
    (r_pc \in {"stop", "done"} /\ strategy = "interval") =>
        \A n \in 0..(total_frames - 1) :
            (n % frame_interval = 0 /\ n \notin failed_reads) => n \in Range(FramesPut)

\* C18: the work channel never holds more than 100 items, frames and sentinels
\* together; while it is full the reader puts nothing, so its next put follows a
\* worker's get; the results channel has no capacity that a worker's put waits for
C18_WorkChannelBounded ==
    /\ [](Len(frame_queue) <= QueueMaxsize)
    /\ [][Len(frame_queue) >= QueueMaxsize => put_log' = put_log]_vars
    /\ [][Len(put_log') > Len(put_log) => Len(frame_queue) < QueueMaxsize]_vars
    /\ [](\A w \in Workers :
            w_pc[w] \in {"process", "flush", "put_stop"} =>
                ENABLED (WorkerRecognize(w) \/ WorkerPutStop(w)))

\* the reader is held by a full work channel with frames left to read, while the
\* results channel, which nobody reads, holds a result
C18_Witness ==
    /\ Len(frame_queue) = QueueMaxsize
    /\ r_pc = "read"
    /\ frame_count < total_frames
    /\ Len(result_queue) >= 1

\* C21: a frame whose image file could not be written gets no FrameRecord: every
\* record, in the saver's list and in the metadata document, names a file that is on
\* disk and holds that record's frame; the indices of the records stay contiguous
C21_FailedWriteGetsNoRecord ==
    /\ \A k \in 1..Len(frame_infos) :
          /\ frame_infos[k].filename \in DOMAIN files
          /\ files[frame_infos[k].filename] = frame_infos[k].frame_number
    /\ \A d \in 1..Len(metadata) : \A k \in 1..Len(metadata[d].frames) :
          metadata[d].frames[k].filename \in DOMAIN files
    /\ RecordsNumbered(frame_infos)

\* the indices 0, i, 2i, ... below T, ascending
RECURSIVE MultiplesBelow(_, _, _)
MultiplesBelow(n, i, T) == IF n >= T THEN <<>> ELSE <<n>> \o MultiplesBelow(n + i, i, T)

\* the indices of the decoder calls of one kind that returned a frame, in call order
CallsOk(op) ==
    LET ok == SelectSeq(cap_calls, LAMBDA c : c.op = op /\ c.ret)
    IN [k \in 1..Len(ok) |-> ok[k].n]

\* C24: on a video of T decodable frames an interval reader that has left its loop
\* has put exactly the indices 0, i, 2i, ... below T, each once and ascending; it
\* fully decoded exactly these indices and advanced with grab over all the others
C24_IntervalIndices ==
    (r_pc \in {"stop", "done"} /\ strategy = "interval" /\ failed_reads = {}) =>
        /\ FramesPut = MultiplesBelow(0, frame_interval, total_frames)
        /\ CallsOk("read") = FramesPut
        /\ Range(CallsOk("grab")) =
              (0..(total_frames - 1)) \ Range(MultiplesBelow(0, frame_interval, total_frames))
        /\ Len(CallsOk("grab")) = Cardinality(Range(CallsOk("grab")))

\* seven frames, interval 3: frames 0, 3 and 6 were put, four frames were grabbed
C24_Witness ==
    /\ r_pc = "done"
    /\ total_frames = 7 /\ frame_interval = 3
    /\ FramesPut = <<0, 3, 6>>
    /\ Len(CallsOk("grab")) = 4

\* C30: with the interval strategy and every decode succeeding, expected_frames and
\* frames_read of process_video both equal the number of frames the reader put
C30_FrameCountsAgree ==
    (r_pc = "done" /\ strategy = "interval" /\ launch = "process_video"
        /\ failed_reads = {}) =>
        /\ expected_frames = Len(FramesPut)
        /\ frames_read = Len(FramesPut)

IsPrefix(a, b) == Len(a) <= Len(b) /\ a = SubSeq(b, 1, Len(a))

\* C25: a worker's pending batch never holds more than batch_size frames; recognition
\* is invoked on the frames in the order the worker pulled them, never twice on one,
\* each invocation is followed by one result for that frame, and a worker that has
\* ended has invoked it on every frame it pulled
C25_OncePerFrameInOrder ==
    \A w \in Workers :
        /\ Len(batch[w]) <= batch_size
        /\ IsPrefix(w_log[w].calls, w_log[w].pulled)
        /\ w_log[w].emitted = w_log[w].calls
        /\ WorkerEnded(w) => w_log[w].calls = w_log[w].pulled

\* C28: a worker never consumes more than one sentinel, a worker that has ended has
\* consumed exactly one, and once every worker has ended the work channel is empty
C28_OneSentinelEach ==
    /\ \A w \in Workers : w_stops_pulled[w] <= 1
    /\ \A w \in Workers : WorkerEnded(w) => w_stops_pulled[w] = 1
    /\ (\A w \in Workers : WorkerEnded(w)) => frame_queue = <<>>

\* C26: normalize_text never returns a non-empty text shorter than 2 characters, so
\* has_meaningful_text holds exactly when the normalized text is not empty
C26_NormalizedEmptyOrTwo ==
    call_out.fn = "normalize_text" =>
        /\ call_out.normalized = <<>> \/ Len(call_out.normalized) >= 2
        /\ call_out.meaningful <=> (call_out.normalized # <<>>)

\* the text the similarity test is made on: the OCR text, or the STT text when the
\* OCR text is blank
PrimaryText(ocr_text, stt_text) == IF Strip(ocr_text) # <<>> THEN ocr_text ELSE stt_text

\* C27: with only_with_text on, a candidate whose OCR text normalizes to fewer than 2
\* characters and whose STT text is empty is not saved, whatever the last-saved
\* state; with only_with_text off the decision is the one of the text comparison
\* alone
C27_OnlyWithTextPolicy ==
    call_out.fn = "should_save_frame" =>
        LET c == call_in
            weak == Len(normalize_text(c.ocr_text)) < 2 /\ c.stt_text = <<>>
            norm == normalize_text(PrimaryText(c.ocr_text, c.stt_text))
            norm_last == normalize_text(PrimaryText(c.last_text_data.ocr_text,
                                                   c.last_text_data.stt_text))
        IN /\ (c.only_with_text /\ weak) => ~call_out.save
           /\ ~c.only_with_text =>
                 (call_out.save <=> \/ norm = <<>>
                                    \/ is_text_significantly_different(norm, norm_last)
                                    \/ c.last_text_data.stt_text = <<>>)

\* the policy is on, nothing was saved yet, the candidate reads "a" and has no STT
\* text: not saved
C27_Witness ==
    /\ call_out.fn = "should_save_frame"
    /\ call_in.only_with_text
    /\ call_in.ocr_text = <<"a">> /\ call_in.stt_text = <<>>
    /\ call_in.last_text_data = [ocr_text |-> <<>>, stt_text |-> <<>>]
    /\ ~call_out.save

\* C29: in the save pass and after it, saved_count is the number of records
\* appended so far; a written metadata document has frames_saved equal to the length
\* of its frames list and total_frames_processed equal to the number of frames the
\* collection loop received, which is at least frames_saved
C29_CountsAgree ==
    /\ s_pc \in {"save", "done"} => saved_count = Len(frame_infos)
    /\ \A d \in 1..Len(metadata) :
          /\ metadata[d].frames_saved = Len(metadata[d].frames)
          /\ metadata[d].total_frames_processed = Len(arrival)
          /\ metadata[d].total_frames_processed >= metadata[d].frames_saved

\* a document written after a pass in which one frame was saved, one call of
\* save_frame_with_metadata failed and one frame was passed over or failed too
C29_Witness ==
    /\ Len(metadata) = 1
    /\ metadata[1].frames_saved = 1
    /\ metadata[1].total_frames_processed = 3
    /\ Cardinality(DOMAIN files) = 1

\* the entry process_multiple_videos holds for the video at position i is an error
ErrorEntry(i) == "error" \in DOMAIN results[i]

\* C22: the results list holds one entry per path the loop has been over, in input
\* order, and one per input path when process_multiple_videos returns; the entry of
\* a video whose process_video raised has 'error' and success = False and no
\* process was started for that video; every video that does not raise, those after
\* a failed one included, had its processes started and has a result without error
C22_OneEntryPerVideo ==
    b_pc # "none" =>
       /\ Len(results) = (IF b_pc = "running" THEN v_idx - 1 ELSE Min2(v_idx - 1, Len(video_paths)))
       /\ v_idx <= Len(video_paths) + 1
       /\ b_pc = "returned" => Len(results) = Len(video_paths)
       /\ \A i \in 1..Len(results) :
             /\ results[i].video_path = video_paths[i].path
             /\ ErrorEntry(i) <=> Raises(video_paths[i]) # "none"
             /\ ErrorEntry(i) => (results[i].success = FALSE /\ i \notin Range(started))
             /\ ~ErrorEntry(i) => i \in Range(started)

\* the batch has returned with a result for a video that came after a failed one
C22_Witness ==
    /\ b_pc = "returned"
    /\ Len(results) = 2
    /\ ErrorEntry(1) /\ results[1].error = "FileNotFoundError"
    /\ ~ErrorEntry(2) /\ results[2].frames_read = 2
    /\ started = <<2>>

\* the items the workers of the running video have put on the results channel
EmittedByWorkers ==
    LET RECURSIVE Sum(_)
        Sum(n) == IF n = 0 THEN 0 ELSE w_results[n] + w_stops[n] + Sum(n - 1)
    IN Sum(num_workers)

\* C23: videos are processed one after the other, each with its own channels:
\* processes are started for one position at a time, in input order; whenever
\* process_multiple_videos is not inside a process_video call, the reader, every
\* worker and the saver of every video processed so far have ended; and the
\* channels of the running video hold only what its own reader and workers put
C23_SequentialAndIsolated ==
    b_pc # "none" =>
       /\ \A i \in 1..Len(started) : \A j \in 1..Len(started) : i < j => started[i] < started[j]
       /\ b_pc = "running" => (started # <<>> /\ started[Len(started)] = v_idx)
       /\ b_pc \in {"loop", "returned"} => (ReaderEnded /\ WorkersEnded /\ SaverEnded)
       /\ Len(frame_queue) <= Len(put_log)
       /\ Len(result_queue) <= EmittedByWorkers

\* two videos have been processed and the batch has returned; the results of the
\* second video are still on its results channel
C23_Witness ==
    /\ b_pc = "returned"
    /\ started = <<1, 2>>
    /\ ReaderEnded /\ WorkersEnded /\ SaverEnded
    /\ Len(result_queue) >= 2

\* C31: the SQL file generate_d1_sql writes has one INSERT row per record of the
\* metadata document, in order, and each row carries the record's filename, its
\* frame_number and, SQL-escaped, the ocr_text the saver recorded for the frame
C31_ExportConsistent ==
    sql_file.written =>
        LET frames == metadata[Len(metadata)].frames
            rows == sql_file.rows
        IN /\ Len(rows) = Len(frames)
           /\ \A k \in 1..Len(rows) :
                 /\ rows[k].filename = frames[k].filename
                 /\ rows[k].frame_number = frames[k].frame_number
                 /\ rows[k].ocr_text = SqlEscape(frames[k].ocr_text)

=============================================================================
